---- MODULE Spec2Model ----
(***************************************************************************)
(* Query routing and the code-generation repair loop of backend/app.py.    *)
(*                                                                         *)
(* A chat message is a sequence of words, a model reply a sequence of      *)
(* tokens.  Python's substring test `kw in text` is modelled on words: a   *)
(* keyword (a sequence of words) occurs in a text when it matches a        *)
(* contiguous run of the text's words; the one keyword that is a substring *)
(* of another vocabulary word ('search' in 'research') is kept.            *)
(*                                                                         *)
(* A code artifact is identified by the number of the attempt that         *)
(* produced it; 0 stands for Python's None.  A model reply that holds no   *)
(* type name is the text "<unrecognised>".                                 *)
(***************************************************************************)
EXTENDS Integers, Sequences, FiniteSets, TLC

\* ------------------------------------------------------------------ bounds
MaxMsgLen == 2
MaxReplyLen == 2
MaxFiles == 2
MaxDocs == 1
MaxCharts == 2
MaxSandboxes == 2
MaxLines == 3
MaxParts == 3
MaxPreviewHundreds == 21
MaxFeatures == 2
MaxCompetitors == 2
MaxClock == 2
MaxRetries == 4

\* ---------------------------------------------------------- program values
MAX_RETRIES == 10
indent_size == 4
rule_width == 60
preview_limit == 2000
prompt_limit == 2000
template_limit == 1000

valid_types == <<"csv_only", "web_search_only", "document_search", "both", "needs_csv">>

ValidTypeSet == {valid_types[i] : i \in 1..Len(valid_types)}

document_keywords ==
  { <<"document">>, <<"file">>, <<"uploaded">>, <<"downloaded">>,
    <<"what", "does", "it", "say">>, <<"summarize", "the", "document">>,
    <<"in", "the", "document">>, <<"from", "the", "file">>,
    <<"in", "the", "file">>, <<"what's", "in", "the", "document">> }

research_keywords ==
  { <<"research">>, <<"search">>, <<"find">>, <<"look", "up">>, <<"tell", "me">>,
    <<"what", "is">>, <<"who", "is">>, <<"information", "about">> }

fallback_research_keywords ==
  { <<"research">>, <<"search">>, <<"find">>, <<"look", "up">>, <<"tell", "me">>,
    <<"what", "is">> }

\* Session identifiers, and the keys of the research pool: /api/research
\* uses the identifier it is given, chat uses f"{session_id}_research".
Sessions == {"s1", "s2"}

ResearchKey(session_id) == session_id \o "_research"

Keys == Sessions \cup {ResearchKey(sid) : sid \in Sessions}

\* The session of the chat request of the chat specification.
ChatSession == "s1"

\* ------------------------------------------------------------- input spaces
\* Words a request message is built from (one of them capitalised).
Words == {"document", "File", "research", "find", "who", "what", "is", "plot"}

\* Tokens a model reply is built from: the five type names, one of them also
\* in upper case, and a word that is no type name.
ReplyTokens == ValidTypeSet \cup {"CSV_ONLY", "sure"}

SeqsUpTo(S, n) == UNION {[1..k -> S] : k \in 0..n}

Messages == SeqsUpTo(Words, MaxMsgLen)

Replies == SeqsUpTo(ReplyTokens, MaxReplyLen)

\* Messages of the chat specification: one per keyword class.
ChatMessages == { <<"plot">>, <<"File">>, <<"find">> } \cap Messages

\* ------------------------------------------------------------ text helpers
\* str.lower() on one word.
LowerWord(w) ==
  CASE w = "File" -> "file"
    [] w = "CSV_ONLY" -> "csv_only"
    [] OTHER -> w

\* str.lower() on a text.
Lower(text) == [i \in 1..Len(text) |-> LowerWord(text[i])]

\* `k in w` for single words, case-sensitive as in Python.
WordIn(k, w) == k = w \/ (k = "search" /\ w = "research")

\* `kw in text`
Contains(text, kw) ==
  \E i \in 0..(Len(text) - Len(kw)) :
     \A j \in 1..Len(kw) : WordIn(kw[j], text[i + j])

\* any(keyword in text for keyword in kws)
AnyKeyword(text, kws) == \E kw \in kws : Contains(text, kw)

\* ------------------------------------------------------------------- state
VARIABLES
  message,              \* request text (sequence of words)
  uploaded_files,       \* session -> number of attached tabular files
  document_collections, \* session -> number of attached documents
  active_sandboxes,     \* dict: session -> handle of its plain sandbox
  research_sandboxes,   \* dict: key -> handle of its research sandbox
  sandboxes,            \* handle -> [owner, pool, key, released]: every sandbox created
  last_op,              \* the request that finished last
  threads,              \* thread -> position inside a get-or-create
  has_csv,              \* has_csv / has_csv_data
  has_documents,
  llm_raises,           \* classifier input: the model call raises
  llm_reply,            \* classifier input: the model's reply
  query_type,
  pc,                   \* position of the request in its handler
  document_search_result, document_search_error,
  web_research_result, web_research_error,
  retry_count, execution_successful, conversation_history,
  csv_code, csv_error, csv_charts, csv_analysis_result,
  response,
  genCalls,             \* code-generation model calls issued by the loop
  runCalls,             \* sbx.run_code calls on generated code
  explainCalls,         \* explanation model calls
  execution_has_output,
  last_tried,           \* most recent code artifact extracted from a reply
  last_outcome,         \* outcome of the most recent attempt
  step,                 \* position of a function called on its own
  lines,                \* fix_code_indentation: the lines of its argument
  fixed_lines,          \* the lines it returns
  fixed_twice,          \* the lines it returns when given fixed_lines
  parts,                \* extract_code_from_response: the pieces its argument is made of
  extracted,            \* what it returns
  preview_output,       \* results summary: outcome and length of the data preview
  logs,                 \* lengths of the stripped stdout and stderr of the execution
  csv_execution_output, \* the execution log: items with their lengths
  handed,               \* characters of the execution output handed to the explanation
  research_call,        \* perform_web_research: the inputs and the return of its last call
  company_data,         \* comparison: the feature names of the company profile
  competitors_data,     \* the feature names of each competitor record
  comparison,           \* features_comparison, advantages and gaps computed from them
  clock,                \* datetime.now(), in whole seconds
  execution_results,    \* execution.results of the successful execution
  sandbox_charts,       \* the chart paths that exist in the sandbox
  charts_dir,           \* CHARTS_DIR: file name -> the artifact written last
  chart_entries,        \* csv_charts: the entries appended, with the artifact of each
  result_idx,           \* the number of results the chart loop has handled
  scrape                \* scrape_url_in_sandbox: its argument, its loop and its return

registry == <<active_sandboxes, research_sandboxes, sandboxes, last_op, threads>>

attached == <<uploaded_files, document_collections>>

\* The variables of the functions called on their own.
indent_vars == <<lines, fixed_lines, fixed_twice>>

extract_vars == <<parts, extracted>>

summary_vars == <<preview_output, logs, csv_execution_output, handed>>

\* The functions followed call by call.
compare_vars == <<company_data, competitors_data, comparison>>

chart_vars == <<clock, execution_results, sandbox_charts, charts_dir, chart_entries,
               result_idx>>

calls == <<research_call, compare_vars, chart_vars, scrape>>

pure == <<step, indent_vars, extract_vars, summary_vars, calls>>

\* What a chat request is given and never writes.
given == <<message, llm_raises, llm_reply, last_op, threads, pure>>

inputs == <<message, attached, llm_raises, llm_reply, registry, pure>>

routing == <<has_csv, has_documents, query_type>>

searches == <<document_search_result, document_search_error,
              web_research_result, web_research_error>>

loop == <<retry_count, execution_successful, conversation_history, csv_code,
          genCalls, runCalls, last_tried, last_outcome>>

results == <<csv_error, csv_charts, csv_analysis_result, explainCalls, execution_has_output>>

vars == <<inputs, routing, pc, searches, loop, results, response>>

\* ------------------------------------------- determine_query_type_with_llm
\* The reply after strip().lower(), reduced to the first name of valid_types
\* (in list order) that occurs in it; a reply holding none stays as it is.
Sanitize(reply) ==
  LET text == Lower(reply)
      hits == {i \in 1..Len(valid_types) : Contains(text, <<valid_types[i]>>)}
  IN IF hits = {} THEN "<unrecognised>"
     ELSE valid_types[CHOOSE i \in hits : \A j \in hits : i <= j]

NoDocumentsOverride(qt, docs) ==
  IF qt = "document_search" /\ ~docs THEN "web_search_only" ELSE qt

\* Mutant: a tabular answer is left alone too.
DocumentOverride_keeps_csv(qt, msg, docs) ==
  IF docs /\ AnyKeyword(Lower(msg), document_keywords)
          /\ qt \notin {"document_search", "both", "csv_only"}
  THEN "document_search" ELSE qt

DocumentOverride(qt, msg, docs) ==
  IF docs /\ AnyKeyword(Lower(msg), document_keywords)
          /\ qt \notin {"document_search", "both"}
  THEN "document_search" ELSE qt

\* Mutant: the override reads the shorter keyword list of the except branch.
ResearchOverride_short_list(qt, msg, csv, docs) ==
  IF ~csv /\ ~docs /\ AnyKeyword(Lower(msg), fallback_research_keywords)
          /\ qt # "web_search_only"
  THEN "web_search_only" ELSE qt

ResearchOverride(qt, msg, csv, docs) ==
  IF ~csv /\ ~docs /\ AnyKeyword(Lower(msg), research_keywords)
          /\ qt # "web_search_only"
  THEN "web_search_only" ELSE qt

NeedsCsvOverride(qt, csv, docs) ==
  IF qt = "needs_csv" /\ ~csv
  THEN (IF docs THEN "document_search" ELSE "web_search_only")
  ELSE qt

\* Mutant: the value is returned without the membership test.
FinalReturn_unchecked(qt, csv, docs) == qt

FinalReturn(qt, csv, docs) ==
  IF qt \in ValidTypeSet THEN qt
  ELSE IF ~csv /\ ~docs THEN "web_search_only"
  ELSE IF docs THEN "document_search" ELSE "csv_only"

\* The except branch.
ExceptFallback(msg, csv) ==
  IF ~csv THEN "web_search_only"
  ELSE IF AnyKeyword(Lower(msg), fallback_research_keywords) THEN "web_search_only"
  ELSE "csv_only"

determine_query_type_with_llm(msg, csv, docs, raises, reply) ==
  IF raises THEN ExceptFallback(msg, csv)
  ELSE LET q1 == NoDocumentsOverride(Sanitize(reply), docs)
           q2 == DocumentOverride(q1, msg, docs)
           q3 == ResearchOverride(q2, msg, csv, docs)
           q4 == NeedsCsvOverride(q3, csv, docs)
           q5 == NoDocumentsOverride(q4, docs)
       IN FinalReturn(q5, csv, docs)

\* ------------------------------------------------------------ initial state
NoResponse ==
  [status |-> 0, kind |-> "none", error |-> FALSE, code |-> 0, has_code |-> FALSE,
   explanation |-> "none"]

\* ------------------------------------------------------- session registry
\* A dict is a function on the set of its keys.
EmptyDict == [k \in {} |-> 0]

\* d[k] = v
Put(d, k, v) == [x \in (DOMAIN d) \cup {k} |-> IF x = k THEN v ELSE d[x]]

\* Mutant: the entry is left in the dict.
Del_keeps_entry(d, k) == d

\* del d[k]
Del(d, k) == [x \in (DOMAIN d) \ {k} |-> d[x]]

\* The registry as one value: the two pools, the sandboxes created so far and
\* the attached-resource lists.
Reg ==
  [active |-> active_sandboxes, research |-> research_sandboxes, boxes |-> sandboxes,
   files |-> uploaded_files, docs |-> document_collections]

\* Sandbox.create() / E2BSandbox.create(mcp=...) returning a new handle.
NewSandbox(boxes, owner, pool, key) ==
  Append(boxes, [owner |-> owner, pool |-> pool, key |-> key, released |-> 0])

\* sandbox.close() / sandbox.kill() on the handles H; a failing call is
\* caught and logged by every caller.
Release(boxes, H) ==
  [h \in DOMAIN boxes |->
     IF h \in H THEN [boxes[h] EXCEPT !.released = @ + 1] ELSE boxes[h]]

\* get_or_create_sandbox; `created` says whether Sandbox.create() returned.
get_or_create_sandbox(R, sid, created) ==
  IF sid \in DOMAIN R.active \/ ~created THEN R
  ELSE [R EXCEPT !.boxes = NewSandbox(R.boxes, sid, "plain", sid),
                 !.active = Put(R.active, sid, Len(R.boxes) + 1)]

\* get_or_create_sandbox raises what Sandbox.create() raises.
GetOrCreateRaises(R, sid, created) == sid \notin DOMAIN R.active /\ ~created

\* The get-or-create of the research pool in perform_web_research and research.
research_get_or_create(R, key, owner, created) ==
  IF key \in DOMAIN R.research \/ ~created THEN R
  ELSE [R EXCEPT !.boxes = NewSandbox(R.boxes, owner, "research", key),
                 !.research = Put(R.research, key, Len(R.boxes) + 1)]

cleanup_sandbox(R, sid) ==
  LET R1 == IF sid \in DOMAIN R.active
            THEN [R EXCEPT !.boxes = Release(R.boxes, {R.active[sid]}),
                           !.active = Del(R.active, sid)]
            ELSE R
  IN [R1 EXCEPT !.files[sid] = 0]

cleanup_all_sandboxes(R) ==
  LET held == {R.active[k] : k \in DOMAIN R.active}
      R1 == [R EXCEPT !.boxes = Release(R.boxes, held),
                      !.active = EmptyDict,
                      !.files = [sid \in Sessions |-> 0]]
      rheld == {R1.research[k] : k \in DOMAIN R1.research}
  IN [R1 EXCEPT !.boxes = Release(R1.boxes, rheld), !.research = EmptyDict]

\* The body of close_research_session.
close_research(R, key) ==
  IF key \in DOMAIN R.research
  THEN [R EXCEPT !.boxes = Release(R.boxes, {R.research[key]}),
                 !.research = Del(R.research, key)]
  ELSE R

\* The registry after a handler's calls.
SetReg(R) ==
  /\ active_sandboxes' = R.active
  /\ research_sandboxes' = R.research
  /\ sandboxes' = R.boxes
  /\ uploaded_files' = R.files
  /\ document_collections' = R.docs

\* Outcomes of a create call: it returns (TRUE) or raises (FALSE).
CreateOutcomes == IF Len(sandboxes) < MaxSandboxes THEN BOOLEAN ELSE {FALSE}

\* The same for a get-or-create on pool d: no call is made when d holds k.
CreateOutcomesFor(d, k) == IF k \in DOMAIN d THEN {TRUE} ELSE CreateOutcomes

NoOp == [op |-> "none", key |-> "", error |-> FALSE, closed |-> FALSE]

Idle == [pc |-> "idle", pool |-> "none", key |-> "", made |-> 0]

Threads == {1, 2}

RegistryInit ==
  /\ active_sandboxes = EmptyDict
  /\ research_sandboxes = EmptyDict
  /\ sandboxes = <<>>
  /\ last_op = NoOp
  /\ threads = [t \in Threads |-> Idle]

\* return None
NoCode == [found |-> FALSE, method |-> 0, code |-> <<>>]

NothingHanded == [prompt |-> 0, template |-> 0, used_template |-> FALSE]

SummaryInit ==
  /\ preview_output = [outcome |-> "empty", len |-> 0]
  /\ logs = [stdout |-> 0, stderr |-> 0]
  /\ csv_execution_output = <<>>
  /\ handed = NothingHanded

\* No call of perform_web_research yet.
NoCall ==
  [key |-> "", exa |-> FALSE, creates |-> 0, made |-> 0, model |-> 0, answer |-> "none",
   error |-> "none", raised |-> FALSE]

NoComparison == [features_comparison |-> <<>>, advantages |-> {}, gaps |-> {}]

CompareInit ==
  /\ company_data = {} /\ competitors_data = <<>> /\ comparison = NoComparison

ChartsInit ==
  /\ clock = 0 /\ execution_results = <<>> /\ sandbox_charts = {}
  /\ charts_dir = EmptyDict /\ chart_entries = <<>> /\ result_idx = 0

\* scrape_url_in_sandbox before its loop.
NoScrape(max_retries) ==
  [max_retries |-> max_retries, attempt |-> 0, log |-> <<>>, waits |-> <<>>,
   status |-> "none", error |-> "none", raised |-> FALSE]

\* The initial values of the functions followed call by call, but for one.
CallsInitBut(own) ==
  /\ IF own = "research" THEN TRUE ELSE research_call = NoCall
  /\ IF own = "compare" THEN TRUE ELSE CompareInit
  /\ IF own = "charts" THEN TRUE ELSE ChartsInit
  /\ IF own = "scrape" THEN TRUE ELSE scrape = NoScrape(0)

CallsInit == CallsInitBut("none")

PureInit ==
  /\ step = "none"
  /\ lines = <<>> /\ fixed_lines = <<>> /\ fixed_twice = <<>>
  /\ parts = <<>> /\ extracted = NoCode
  /\ SummaryInit
  /\ CallsInit

RequestInit ==
  /\ query_type = "none"
  /\ pc = "start"
  /\ document_search_result = "none" /\ document_search_error = FALSE
  /\ web_research_result = "none" /\ web_research_error = FALSE
  /\ retry_count = 0 /\ execution_successful = FALSE
  /\ conversation_history = <<>>
  /\ csv_code = 0 /\ csv_error = "none" /\ csv_charts = 0
  /\ csv_analysis_result = "none" /\ execution_has_output = FALSE
  /\ response = NoResponse
  /\ genCalls = 0 /\ runCalls = 0 /\ explainCalls = 0
  /\ last_tried = 0 /\ last_outcome = "none"

\* The classifier called on its own: every input is drawn here.
InitClassify ==
  /\ message \in Messages
  /\ has_csv \in BOOLEAN
  /\ has_documents \in BOOLEAN
  /\ llm_raises \in BOOLEAN
  /\ llm_reply \in (IF llm_raises THEN {<<>>} ELSE Replies)
  /\ uploaded_files = [sid \in Sessions |-> 0]
  /\ document_collections = [sid \in Sessions |-> 0]
  /\ RegistryInit
  /\ RequestInit
  /\ PureInit

Classify ==
  /\ pc = "start"
  /\ query_type' = determine_query_type_with_llm(message, has_csv, has_documents,
                                                 llm_raises, llm_reply)
  /\ pc' = "classified"
  /\ UNCHANGED <<inputs, has_csv, has_documents, searches, loop, results, response>>

NextClassify == Classify

SpecClassify == InitClassify /\ [][NextClassify]_vars

\* ------------------------------------------------------------------- chat
\* One request to /api/chat, step by step.
\* A chat request arrives at a session with some files and documents
\* attached; the upload that attached a file created the session's sandbox.
Init ==
  /\ message \in ChatMessages
  /\ \E n \in 0..MaxFiles :
       /\ uploaded_files = [sid \in Sessions |-> IF sid = ChatSession THEN n ELSE 0]
       /\ \E had \in (IF n > 0 THEN {TRUE} ELSE BOOLEAN) :
            /\ active_sandboxes =
                 (IF had THEN Put(EmptyDict, ChatSession, 1) ELSE EmptyDict)
            /\ sandboxes =
                 (IF had THEN NewSandbox(<<>>, ChatSession, "plain", ChatSession) ELSE <<>>)
  /\ \E n \in 0..MaxDocs :
       document_collections = [sid \in Sessions |-> IF sid = ChatSession THEN n ELSE 0]
  /\ research_sandboxes = EmptyDict
  /\ last_op = NoOp
  /\ threads = [t \in Threads |-> Idle]
  /\ has_csv = FALSE /\ has_documents = FALSE
  /\ llm_raises = FALSE /\ llm_reply = <<>>
  /\ RequestInit
  /\ PureInit

\* The rewrite of needs_csv in chat: both branches end in web_search_only.
ChatNeedsCsvOverride(qt, csv, docs) ==
  IF qt = "needs_csv" /\ ~csv THEN "web_search_only" ELSE qt

\* Values of csv_analysis_result that are false in a condition: None and ''.
Falsy == {"none", "empty"}

\* The explanation of the tabular analysis carried by the response text:
\* csv_only replaces a missing one by a fixed sentence, both leaves it out.
Explanation(kind) ==
  IF kind = "csv" THEN (IF csv_analysis_result \in Falsy THEN "default" ELSE csv_analysis_result)
  ELSE IF kind = "both" THEN (IF csv_analysis_result \in Falsy THEN "none" ELSE csv_analysis_result)
  ELSE "none"

Respond(status, kind, error, code) ==
  /\ response' = [status |-> status, kind |-> kind, error |-> error,
                  code |-> code, has_code |-> code # 0, explanation |-> Explanation(kind)]
  /\ pc' = "done"

\* Resource flags, classification, file selection, needs_csv rewrite.
\* select_relevant_csvs returns a non-empty selection and changes no state.
ChatRoute ==
  /\ pc = "start"
  /\ has_csv' = (uploaded_files[ChatSession] > 0)
  /\ has_documents' = (document_collections[ChatSession] > 0)
  /\ \E raises \in BOOLEAN :
       \E reply \in (IF raises THEN {<<>>} ELSE Replies) :
          query_type' = ChatNeedsCsvOverride(
                           determine_query_type_with_llm(message, has_csv', has_documents',
                                                         raises, reply),
                           has_csv', has_documents')
  /\ pc' = "document"
  /\ UNCHANGED <<inputs, searches, loop, results, response>>

\* Document search; every failure inside is caught and recorded.
ChatDocumentSearch ==
  /\ pc = "document"
  /\ IF query_type = "document_search"
     THEN /\ query_type' = (IF ~has_documents THEN "web_search_only" ELSE query_type)
          /\ \E created \in CreateOutcomes :
               /\ SetReg(get_or_create_sandbox(Reg, ChatSession, created))
               /\ \E outcome \in (IF GetOrCreateRaises(Reg, ChatSession, created)
                                   THEN {"raise"} ELSE {"answer", "no_results", "raise"}) :
                    /\ document_search_result' =
                         (IF outcome = "answer" THEN "answer" ELSE "none")
                    /\ document_search_error' = (outcome # "answer")
     ELSE UNCHANGED <<query_type, document_search_result, document_search_error,
                      attached, active_sandboxes, research_sandboxes, sandboxes>>
  /\ pc' = "web"
  /\ UNCHANGED <<given, has_csv, has_documents, web_research_result, web_research_error,
                 loop, results, response>>

\* Web research through perform_web_research, which returns (answer, None)
\* or (None, error); it gets or creates the research sandbox kept under the
\* key derived from the session when the search key is configured.
ChatWebResearch ==
  /\ pc = "web"
  /\ IF query_type \in {"web_search_only", "both"}
     THEN \E exa \in BOOLEAN, created \in CreateOutcomes :
            LET key == ResearchKey(ChatSession)
                have == exa /\ (key \in DOMAIN research_sandboxes \/ created)
            IN /\ SetReg(IF exa THEN research_get_or_create(Reg, key, ChatSession, created)
                                ELSE Reg)
               /\ \E ok \in (IF have THEN BOOLEAN ELSE {FALSE}) :
                    /\ web_research_result' = (IF ok THEN "answer" ELSE "none")
                    /\ web_research_error' = ~ok
                    /\ IF ~ok /\ query_type = "web_search_only"
                       THEN Respond(500, "web_research_failed", TRUE, 0)
                       ELSE pc' = "csv" /\ UNCHANGED response
     ELSE /\ pc' = "csv"
          /\ UNCHANGED <<web_research_result, web_research_error, response,
                         attached, active_sandboxes, research_sandboxes, sandboxes>>
  /\ UNCHANGED <<given, routing, document_search_result, document_search_error,
                 loop, results>>

\* Start of the tabular analysis: the upload check, the sandbox, the prompts
\* and the data preview (whose own failures are caught), up to the loop's
\* initial values.
ChatCsvStart ==
  /\ pc = "csv"
  /\ IF query_type \in {"csv_only", "both"}
     THEN IF ~has_csv
          THEN /\ Respond(400, "upload_first", TRUE, 0)
               /\ UNCHANGED <<conversation_history, attached, active_sandboxes,
                              research_sandboxes, sandboxes>>
          ELSE \E created \in CreateOutcomes :
                 /\ SetReg(get_or_create_sandbox(Reg, ChatSession, created))
                 /\ \E raises \in (IF GetOrCreateRaises(Reg, ChatSession, created)
                                    THEN {TRUE} ELSE BOOLEAN) :
                      /\ pc' = (IF raises THEN "except" ELSE "loop")
                      /\ conversation_history' =
                           (IF raises THEN conversation_history ELSE <<"system", "user">>)
                      /\ UNCHANGED response
     ELSE /\ pc' = "combine"
          /\ UNCHANGED <<conversation_history, response, attached, active_sandboxes,
                         research_sandboxes, sandboxes>>
  /\ UNCHANGED <<given, routing, searches, retry_count, execution_successful, csv_code,
                 genCalls, runCalls, last_tried, last_outcome, results>>

\* Mutant: the bound is tested with <=.
LoopCond_off_by_one == retry_count <= MAX_RETRIES /\ ~execution_successful

\* Mutant: the loop tests the attempt count only.
LoopCond_ignores_success == retry_count < MAX_RETRIES

\* while retry_count < MAX_RETRIES and not execution_successful
LoopCond == retry_count < MAX_RETRIES /\ ~execution_successful

\* Mutant: the reply of the failed attempt is not kept in the conversation.
FailedAttempt_drops_reply(outcome) ==
  /\ conversation_history' = conversation_history \o <<"user">>
  /\ retry_count' = retry_count + 1
  /\ last_outcome' = outcome
  /\ pc' = "loop"

\* The two messages every failed attempt appends, and the count.
FailedAttempt(outcome) ==
  /\ conversation_history' = conversation_history \o <<"assistant", "user">>
  /\ retry_count' = retry_count + 1
  /\ last_outcome' = outcome
  /\ pc' = "loop"

\* One generation call and the extraction of code from its reply.
ChatGenerate ==
  /\ pc = "loop" /\ LoopCond
  /\ genCalls' = genCalls + 1
  /\ \E outcome \in {"raise", "no_code", "code"} :
       CASE outcome = "raise" ->
              /\ pc' = "except" /\ last_outcome' = "exception"
              /\ UNCHANGED <<csv_code, last_tried, conversation_history, retry_count>>
         [] outcome = "no_code" ->
              /\ csv_code' = 0
              /\ FailedAttempt("no_code")
              /\ UNCHANGED last_tried
         [] outcome = "code" ->
              /\ csv_code' = retry_count + 1
              /\ last_tried' = retry_count + 1
              /\ pc' = "validate"
              /\ UNCHANGED <<conversation_history, retry_count, last_outcome>>
  /\ UNCHANGED <<inputs, routing, searches, execution_successful, runCalls, results, response>>

\* compile(csv_code, '<string>', 'exec'); only SyntaxError is caught here.
ChatValidate ==
  /\ pc = "validate"
  /\ \E outcome \in {"valid", "syntax_error", "raise"} :
       CASE outcome = "valid" ->
              /\ pc' = "execute"
              /\ UNCHANGED <<conversation_history, retry_count, last_outcome>>
         [] outcome = "syntax_error" -> FailedAttempt("syntax_error")
         [] outcome = "raise" ->
              /\ pc' = "except" /\ last_outcome' = "exception"
              /\ UNCHANGED <<conversation_history, retry_count>>
  /\ UNCHANGED <<inputs, routing, searches, execution_successful, csv_code, genCalls,
                 runCalls, last_tried, results, response>>

\* sbx.run_code(csv_code) and the test of execution.error.
ChatExecute ==
  /\ pc = "execute"
  /\ runCalls' = runCalls + 1
  /\ \E outcome \in {"success", "error", "raise"} :
       CASE outcome = "success" ->
              /\ execution_successful' = TRUE
              /\ last_outcome' = "success"
              /\ pc' = "loop"
              /\ UNCHANGED <<conversation_history, retry_count>>
         [] outcome = "error" ->
              /\ FailedAttempt("runtime_error")
              /\ UNCHANGED execution_successful
         [] outcome = "raise" ->
              /\ pc' = "except" /\ last_outcome' = "exception"
              /\ UNCHANGED <<conversation_history, retry_count, execution_successful>>
  /\ UNCHANGED <<inputs, routing, searches, csv_code, genCalls, last_tried, results, response>>

\* After the loop: the failure record, and the early return for csv_only.
ChatHandleFinal ==
  /\ pc = "loop" /\ ~LoopCond
  /\ IF ~execution_successful
     THEN /\ csv_error' = "exhausted"
          /\ IF query_type = "csv_only"
             THEN Respond(500, "csv_failed", TRUE, csv_code)
             ELSE pc' = "process" /\ UNCHANGED response
     ELSE pc' = "process" /\ UNCHANGED <<csv_error, response>>
  /\ UNCHANGED <<inputs, routing, searches, loop, csv_charts, csv_analysis_result,
                 explainCalls, execution_has_output>>

\* Mutant: the results are processed whether or not the execution succeeded.
ProcessGuard_always == TRUE

\* if execution_successful:
ProcessGuard == execution_successful

\* Output capture, chart persistence and the explanation of a successful
\* execution.  An explanation call that fails is caught; a failure while a
\* chart is written is not, and ends in the handler's except branch.
ChatProcessResults ==
  /\ pc = "process"
  /\ IF ProcessGuard
     THEN \E charts \in 0..MaxCharts, has_output \in BOOLEAN,
             outcome \in {"llm", "llm_empty", "llm_raise", "raise"} :
            /\ csv_charts' = charts
            /\ execution_has_output' = has_output
            /\ IF outcome = "raise"
               THEN /\ pc' = "except"
                    /\ UNCHANGED <<csv_analysis_result, explainCalls>>
               ELSE /\ pc' = "combine"
                    /\ explainCalls' = (IF has_output THEN explainCalls + 1 ELSE explainCalls)
                    /\ csv_analysis_result' =
                         (IF ~has_output THEN "attempts"
                          ELSE IF outcome = "llm" THEN "llm"
                          ELSE IF outcome = "llm_empty" THEN "empty"
                          ELSE "template")
     ELSE /\ pc' = "combine"
          /\ UNCHANGED <<csv_charts, csv_analysis_result, explainCalls, execution_has_output>>
  /\ UNCHANGED <<inputs, routing, searches, loop, csv_error, response>>

\* Mutant: the except branch records the error and never returns.
ChatCsvExcept_falls_through ==
  /\ pc = "except"
  /\ csv_error' = "failed"
  /\ pc' = "combine" /\ UNCHANGED response
  /\ UNCHANGED <<inputs, routing, searches, loop, csv_charts, csv_analysis_result,
                 explainCalls, execution_has_output>>

\* except Exception around the tabular analysis.
ChatCsvExcept ==
  /\ pc = "except"
  /\ csv_error' = "failed"
  /\ IF query_type = "csv_only"
     THEN Respond(500, "csv_exception", TRUE, 0)
     ELSE pc' = "combine" /\ UNCHANGED response
  /\ UNCHANGED <<inputs, routing, searches, loop, csv_charts, csv_analysis_result,
                 explainCalls, execution_has_output>>

\* errors of the combined response
BothErrors ==
  (IF web_research_result = "none" /\ web_research_error THEN 1 ELSE 0)
  + (IF csv_analysis_result \in {"none", "empty"} /\ csv_error # "none" THEN 1 ELSE 0)

\* The response by query type.
ChatCombine ==
  /\ pc = "combine"
  /\ CASE query_type = "document_search" ->
            IF document_search_result = "none"
            THEN Respond(200, "document_no_results", document_search_error, 0)
            ELSE Respond(200, "document_answer", FALSE, 0)
       [] query_type = "web_search_only" ->
            IF web_research_result = "none"
            THEN Respond(200, "web_no_results", FALSE, 0)
            ELSE Respond(200, "web_answer", FALSE, 0)
       [] query_type = "csv_only" -> Respond(200, "csv", FALSE, csv_code)
       [] query_type = "both" -> Respond(200, "both", BothErrors > 0, csv_code)
       [] OTHER -> Respond(400, "unable_to_determine", TRUE, 0)
  /\ UNCHANGED <<inputs, routing, searches, loop, results>>

Next ==
  \/ ChatRoute
  \/ ChatDocumentSearch
  \/ ChatWebResearch
  \/ ChatCsvStart
  \/ ChatGenerate
  \/ ChatValidate
  \/ ChatExecute
  \/ ChatHandleFinal
  \/ ChatProcessResults
  \/ ChatCsvExcept
  \/ ChatCombine

Spec == Init /\ [][Next]_vars

\* ------------------------------------------------- claims on the classifier
Classified == pc = "classified"

HasResearchKeyword == AnyKeyword(Lower(message), research_keywords)

HasDocumentKeyword == AnyKeyword(Lower(message), document_keywords)

\* What the model answered: the type name its reply is reduced to.
ModelAnswer == Sanitize(llm_reply)

\* C5: with no tabular data and no documents, a message containing a research
\* keyword is classified web_search_only, whatever the model replied and also
\* when the model call raised.
C5_ResearchOnlyForced ==
  (Classified /\ ~has_csv /\ ~has_documents /\ HasResearchKeyword)
    => query_type = "web_search_only"

C5_Witness ==
  /\ Classified /\ ~has_csv /\ ~has_documents /\ HasResearchKeyword
  /\ ~llm_raises /\ ModelAnswer = "csv_only"
  /\ query_type = "web_search_only"

\* C6: whenever the model answers needs_csv the classifier returns
\* document_search if documents are attached and web_search_only if not, for
\* every has_csv_data; needs_csv itself is never returned.
C6_NeedsCsvRewritten ==
  (Classified /\ ~llm_raises /\ ModelAnswer = "needs_csv")
    => query_type = (IF has_documents THEN "document_search" ELSE "web_search_only")

ForcedByOverrides ==
  IF has_documents /\ HasDocumentKeyword THEN "document_search"
  ELSE IF ~has_csv /\ ~has_documents /\ HasResearchKeyword THEN "web_search_only"
  ELSE "none"

\* C9: when the model call raises, the classifier returns what the keyword
\* overrides of the normal path force for the same input: document_search for
\* a document keyword with documents attached, web_search_only for a research
\* keyword with nothing attached.
C9_FallbackSameHeuristic ==
  (Classified /\ llm_raises /\ ForcedByOverrides # "none")
    => query_type = ForcedByOverrides

\* C10: the classifier always returns one of the five type names, for every
\* model reply and when the model call fails.
C10_AlwaysValidType == Classified => query_type \in ValidTypeSet

C10_Witness ==
  /\ Classified /\ ~llm_raises /\ ModelAnswer = "<unrecognised>"
  /\ has_csv /\ ~has_documents
  /\ query_type = "csv_only"

\* ------------------------------------------------ claims on the repair loop
Exhausted == csv_error = "exhausted"

\* The loop was left by its own condition, not by an exception.
LoopLeftNormally ==
  /\ pc \in {"process", "combine", "done"}
  /\ genCalls > 0
  /\ last_outcome \in {"no_code", "syntax_error", "runtime_error", "success"}

\* C1: the repair loop never makes more than MAX_RETRIES attempts, and when it
\* is left without a successful execution (whatever the mix of no-code
\* replies, syntax errors and runtime errors, a runtime error on every attempt
\* included) exactly MAX_RETRIES attempts were made and the failure is
\* recorded.
C1_BoundedAttempts ==
  /\ genCalls <= MAX_RETRIES
  /\ retry_count <= MAX_RETRIES
  /\ runCalls <= genCalls
  /\ (LoopLeftNormally /\ ~execution_successful)
       => (genCalls = MAX_RETRIES /\ retry_count = MAX_RETRIES /\ Exhausted)

C1_Witness ==
  /\ pc = "done" /\ Exhausted
  /\ runCalls = MAX_RETRIES /\ genCalls = MAX_RETRIES
  /\ last_outcome = "runtime_error"
  /\ response.status = 500

\* C2: when the first attempt's code passes the syntax check and executes
\* without error, the loop ends successfully after that attempt: exactly one
\* generation call and one execution are ever made.
C2_FirstAttemptSuccess ==
  (execution_successful /\ retry_count = 0)
    => (genCalls = 1 /\ runCalls = 1 /\ ~Exhausted /\ Len(conversation_history) = 2)

C2_Witness ==
  /\ pc = "done" /\ execution_successful /\ retry_count = 0
  /\ genCalls = 1 /\ response.kind = "csv" /\ ~response.error

\* C3: once the attempts are exhausted nothing further is tried: no generation
\* call, no remote execution, no chart persistence and no explanation call
\* happens afterwards, and the response carries an error.
C3_ExhaustionIsTerminal ==
  /\ [](Exhausted => /\ csv_charts = 0 /\ explainCalls = 0
                     /\ csv_analysis_result = "none"
                     /\ (pc = "done" => response.error))
  /\ [][Exhausted => (genCalls' = genCalls /\ runCalls' = runCalls /\ Exhausted')]_vars

C3_Witness ==
  /\ pc = "done" /\ Exhausted /\ query_type = "both"
  /\ web_research_result = "answer"
  /\ response.kind = "both" /\ response.error

\* C4: when the loop ends, the kept code artifact is the one that executed
\* successfully or, after exhaustion, the most recent code that was extracted
\* from a reply, also when the final reply held no code; the same artifact is
\* the code of the response.
C4_KeptArtifactIsLastTried ==
  /\ (Exhausted \/ execution_successful) => csv_code = last_tried
  /\ (pc = "done" /\ response.kind \in {"csv_failed", "csv"}) => response.code = last_tried

\* C7: a finished request was dispatched as csv_only, web_search_only,
\* document_search or both, never as needs_csv, and its response is never
\* 'Unable to determine query type'.
C7_NeedsCsvNeverDispatched ==
  pc = "done" =>
    /\ query_type \in {"csv_only", "web_search_only", "document_search", "both"}
    /\ response.kind # "unable_to_determine"


\* ------------------------------------------------- sessions, one request
\* ------------------------------------------------- at a time
\* Each handler runs from start to end before the next one starts.  The
\* request-local variables of chat stay at their initial values here: this
\* specification follows the registry across requests.
request == <<message, llm_raises, llm_reply, routing, pc, searches, loop, results,
             response, threads, pure>>

InitSessions ==
  /\ message = <<>>
  /\ has_csv = FALSE /\ has_documents = FALSE
  /\ llm_raises = FALSE /\ llm_reply = <<>>
  /\ uploaded_files = [sid \in Sessions |-> 0]
  /\ document_collections = [sid \in Sessions |-> 0]
  /\ RegistryInit
  /\ RequestInit
  /\ PureInit

\* last_op names the teardown call that finished last, and whether it closed
\* a sandbox; any other request that finishes resets it.
Finished(op, key, error) ==
  last_op' = [op |-> op, key |-> key, error |-> error, closed |-> sandboxes' # sandboxes]

Served == last_op' = [op |-> "request", key |-> "", error |-> FALSE, closed |-> FALSE]

\* d[k] / del d[k] on a key the dict does not hold.
KeyError(d, k) == k \notin DOMAIN d

\* The answer of upload_file for session sid, 'success': True or an error,
\* kept in last_op when the uploads are followed, and counted as any other
\* request when they are not.
Uploaded(sid, success, followed) ==
  IF followed
  THEN last_op' = [op |-> "upload", key |-> sid, error |-> ~success, closed |-> FALSE]
  ELSE Served

\* upload_file: rejected before the sandbox | create raises | write raises |
\* the analysis run raises (success reported, file not registered) | registered
\* with the summary computed or, when the analysis reports an error or
\* nothing can be parsed, with the empty one.
upload_request(sid, followed) ==
  \/ /\ Served
     /\ UNCHANGED <<request, attached, active_sandboxes, research_sandboxes, sandboxes>>
  \/ \E created \in CreateOutcomesFor(active_sandboxes, sid) :
       LET R == get_or_create_sandbox(Reg, sid, created)
       IN IF GetOrCreateRaises(Reg, sid, created)
          THEN SetReg(R) /\ Uploaded(sid, FALSE, followed) /\ UNCHANGED request
          ELSE \E outcome \in {"write_raises", "analysis_raises", "registered"} :
                 LET stored == outcome = "registered"
                 IN /\ stored => uploaded_files[sid] < MaxFiles
                    /\ SetReg(IF stored THEN [R EXCEPT !.files[sid] = @ + 1] ELSE R)
                    /\ Uploaded(sid, outcome # "write_raises", followed)
                    /\ UNCHANGED request

upload_file(sid) == upload_request(sid, FALSE)

\* download_google_drive: rejected before the sandbox | create raises |
\* the download fails (sandbox kept) | the document is appended.
download_google_drive(sid) ==
  \/ /\ Served
     /\ UNCHANGED <<request, attached, active_sandboxes, research_sandboxes, sandboxes>>
  \/ \E created \in CreateOutcomesFor(active_sandboxes, sid) :
       LET R == get_or_create_sandbox(Reg, sid, created)
       IN IF GetOrCreateRaises(Reg, sid, created)
          THEN SetReg(R) /\ Served /\ UNCHANGED request
          ELSE \E stored \in BOOLEAN :
                 /\ stored => document_collections[sid] < MaxDocs
                 /\ SetReg(IF stored THEN [R EXCEPT !.docs[sid] = @ + 1] ELSE R)
                 /\ Served
                 /\ UNCHANGED request

\* chat, seen from the registry: the document search and the tabular analysis
\* get or create the session's plain sandbox, the web research gets or creates
\* the research sandbox under the derived key.  Neither create failure leaves
\* the handler as an exception.
chat(sid) ==
  \E plain \in BOOLEAN, web \in BOOLEAN :
    \E c1 \in (IF plain THEN CreateOutcomesFor(active_sandboxes, sid) ELSE {TRUE}) :
      LET R1 == IF plain THEN get_or_create_sandbox(Reg, sid, c1) ELSE Reg
          key == ResearchKey(sid)
          room == Len(R1.boxes) < MaxSandboxes
      IN \E c2 \in (IF web /\ key \notin DOMAIN research_sandboxes
                    THEN (IF room THEN BOOLEAN ELSE {FALSE}) ELSE {TRUE}) :
           /\ SetReg(IF web THEN research_get_or_create(R1, key, sid, c2) ELSE R1)
           /\ Served
           /\ UNCHANGED request

\* research: rejected before the sandbox | the sandbox is got or created
\* under the key the client sent.
research(key) ==
  \/ /\ Served
     /\ UNCHANGED <<request, attached, active_sandboxes, research_sandboxes, sandboxes>>
  \/ \E created \in CreateOutcomesFor(research_sandboxes, key) :
       /\ SetReg(research_get_or_create(Reg, key, key, created))
       /\ Served
       /\ UNCHANGED request

\* cleanup_sandbox raises what escapes its try block.
cleanup_sandbox_raises(R, sid) == sid \in DOMAIN R.active /\ KeyError(R.active, sid)

close_session(sid) ==
  /\ SetReg(cleanup_sandbox(Reg, sid))
  /\ Finished("close_session", sid, cleanup_sandbox_raises(Reg, sid))
  /\ UNCHANGED request

close_research_raises(R, key) == key \in DOMAIN R.research /\ KeyError(R.research, key)

close_research_session(key) ==
  /\ SetReg(close_research(Reg, key))
  /\ Finished("close_research", key, close_research_raises(Reg, key))
  /\ UNCHANGED request

\* The admin endpoint; the exit hook and the signal handler make the same call.
cleanup_all ==
  /\ SetReg(cleanup_all_sandboxes(Reg))
  /\ Finished("cleanup_all", "", FALSE)
  /\ UNCHANGED request

\* SIGINT / SIGTERM: the handler cleans up and exits, and the exit hook
\* cleans up again.
signal_handler ==
  /\ SetReg(cleanup_all_sandboxes(cleanup_all_sandboxes(Reg)))
  /\ Finished("signal", "", FALSE)
  /\ UNCHANGED request

NextSessions ==
  \/ \E sid \in Sessions : upload_file(sid)
  \/ \E sid \in Sessions : download_google_drive(sid)
  \/ \E sid \in Sessions : chat(sid)
  \/ \E key \in Keys : research(key)
  \/ \E sid \in Sessions : close_session(sid)
  \/ \E key \in Keys : close_research_session(key)
  \/ cleanup_all
  \/ signal_handler

SpecSessions == InitSessions /\ [][NextSessions]_vars

\* Handles that were created and not yet released.
Live == {h \in DOMAIN sandboxes : sandboxes[h].released = 0}

\* Handles a pool still holds.
Held == {active_sandboxes[k] : k \in DOMAIN active_sandboxes}
        \cup {research_sandboxes[k] : k \in DOMAIN research_sandboxes}

OpenedFor(sid) == {h \in DOMAIN sandboxes : sandboxes[h].owner = sid}

\* C11: once close_session(S) has finished, every sandbox that was opened for
\* S - the plain one and the research one chat created under the derived key -
\* has been released and no pool holds a handle of S.
C11_CloseReleasesAllOfSession ==
  last_op.op = "close_session" =>
    \A h \in OpenedFor(last_op.key) : h \notin Live /\ h \notin Held

TeardownOps == {"close_session", "close_research", "cleanup_all", "signal"}

\* C12: under any sequential order of teardown calls no handle is released
\* more than once and no teardown call ends in an error.
C12_TeardownIdempotent ==
  /\ \A h \in DOMAIN sandboxes : sandboxes[h].released <= 1
  /\ last_op.op \in TeardownOps => ~last_op.error

\* A session is closed again after its sandbox was released: the second call
\* closes nothing.
C12_Witness ==
  /\ last_op.op = "close_session" /\ ~last_op.closed
  /\ \E h \in DOMAIN sandboxes :
       /\ sandboxes[h].pool = "plain" /\ sandboxes[h].key = last_op.key
       /\ sandboxes[h].released = 1


\* ------------------------------------------- get-or-create, two threads
\* The development server handles each request on its own thread, and no
\* lock guards the pools: the membership test, the create call and the store
\* of a get-or-create are separate steps of the thread that runs it.
Pool(name) == IF name = "plain" THEN active_sandboxes ELSE research_sandboxes

\* Keys requests use on each pool: the session for the plain pool, the key
\* chat derives from it for the research pool.
PoolKeys(name) == IF name = "plain" THEN Sessions ELSE {ResearchKey(sid) : sid \in Sessions}

\* The session a key of PoolKeys belongs to.
SessionOf(key) == CHOOSE sid \in Sessions : key \in {sid, ResearchKey(sid)}

frame == <<message, llm_raises, llm_reply, attached, routing, pc, searches, loop, results,
           response, last_op, pure>>

\* A request reaches its get-or-create.
Enter(t) ==
  /\ threads[t].pc = "idle"
  /\ \E name \in {"plain", "research"} : \E key \in PoolKeys(name) :
       threads' = [threads EXCEPT ![t] = [pc |-> "test", pool |-> name, key |-> key, made |-> 0]]
  /\ UNCHANGED <<frame, active_sandboxes, research_sandboxes, sandboxes>>

\* `if key not in pool`
Test(t) ==
  /\ threads[t].pc = "test"
  /\ threads' = [threads EXCEPT ![t].pc =
                   IF threads[t].key \in DOMAIN Pool(threads[t].pool) THEN "return" ELSE "create"]
  /\ UNCHANGED <<frame, active_sandboxes, research_sandboxes, sandboxes>>

\* The create call returns a new sandbox, or raises and ends the request.
Create(t) ==
  /\ threads[t].pc = "create"
  /\ \E created \in CreateOutcomes :
       IF created
       THEN /\ sandboxes' = NewSandbox(sandboxes, SessionOf(threads[t].key), threads[t].pool,
                                       threads[t].key)
            /\ threads' = [threads EXCEPT ![t].pc = "store", ![t].made = Len(sandboxes) + 1]
       ELSE /\ threads' = [threads EXCEPT ![t] = Idle]
            /\ UNCHANGED sandboxes
  /\ UNCHANGED <<frame, active_sandboxes, research_sandboxes>>

\* pool[key] = the sandbox just created
Store(t) ==
  /\ threads[t].pc = "store"
  /\ IF threads[t].pool = "plain"
     THEN /\ active_sandboxes' = Put(active_sandboxes, threads[t].key, threads[t].made)
          /\ UNCHANGED research_sandboxes
     ELSE /\ research_sandboxes' = Put(research_sandboxes, threads[t].key, threads[t].made)
          /\ UNCHANGED active_sandboxes
  /\ threads' = [threads EXCEPT ![t].pc = "return"]
  /\ UNCHANGED <<frame, sandboxes>>

\* The request goes on with its sandbox and ends.
Return(t) ==
  /\ threads[t].pc = "return"
  /\ threads' = [threads EXCEPT ![t] = Idle]
  /\ UNCHANGED <<frame, active_sandboxes, research_sandboxes, sandboxes>>

NextConcurrent ==
  \/ \E t \in Threads : Enter(t)
  \/ \E t \in Threads : Test(t)
  \/ \E t \in Threads : Create(t)
  \/ \E t \in Threads : Store(t)
  \/ \E t \in Threads : Return(t)

SpecConcurrent == InitSessions /\ [][NextConcurrent]_vars

\* Handles a thread has created and not stored yet.
Pending == {threads[t].made : t \in {u \in Threads : threads[u].pc = "store"}}

\* C13: under every interleaving at most one live sandbox exists per pool and
\* key, and every live sandbox is held by its pool or about to be stored.
C13_GetOrCreateAtomic ==
  /\ \A h1, h2 \in Live :
       (sandboxes[h1].pool = sandboxes[h2].pool /\ sandboxes[h1].key = sandboxes[h2].key)
         => h1 = h2
  /\ Live \subseteq (Held \cup Pending)


\* ---------------------------------------------------- fix_code_indentation
\* A line is its leading whitespace (a number of spaces) and the rest of it,
\* a sequence of lexical pieces; line.lstrip() is the rest.
Texts ==
  { <<>>,                                \* blank
    <<"#", "c">>,                        \* comment
    <<"x">>,                             \* ordinary statement
    <<"if", " ", "x", ":">>,
    <<"try", ":">>,
    <<"else", ":">>,
    <<"except", " ", "E", ":">>,
    <<"except", ":">> }

Leads == {0, indent_size, 2 * indent_size}

Lines == [lead : Leads, text : Texts]

Codes == UNION {[1..k -> Lines] : k \in 1..MaxLines}

\* stripped.startswith(prefix)
StartsWith(stripped, prefix) ==
  /\ Len(stripped) >= Len(prefix)
  /\ SubSeq(stripped, 1, Len(prefix)) = prefix

\* stripped.endswith(':')
EndsWithColon(stripped) == stripped # <<>> /\ stripped[Len(stripped)] = ":"

\* Empty lines and comments are kept as they are.
Skipped(stripped) == stripped = <<>> \/ StartsWith(stripped, <<"#">>)

dedent_prefixes == {<<"elif", " ">>, <<"else", ":">>, <<"except", " ">>, <<"finally", ":">>}

is_dedent(stripped) == \E prefix \in dedent_prefixes : StartsWith(stripped, prefix)

\* Mutant: the indentation is put in front of the line as received.
FixedLine_unstripped(indent_level, line) ==
  [lead |-> indent_level + line.lead, text |-> line.text]

\* ' ' * indent_level + stripped
FixedLine(indent_level, line) == [lead |-> indent_level, text |-> line.text]

Max(a, b) == IF a >= b THEN a ELSE b

RECURSIVE FixFrom(_, _, _, _)
\* The loop body from line i on, with the loop's two state values.
FixFrom(ls, i, indent_level, pending_indent) ==
  IF i > Len(ls) THEN <<>>
  ELSE LET line == ls[i]
           stripped == line.text
       IN IF Skipped(stripped)
          THEN <<line>> \o FixFrom(ls, i + 1, indent_level, pending_indent)
          ELSE LET dedent == is_dedent(stripped)
                   l1 == IF pending_indent /\ ~dedent
                         THEN indent_level + indent_size ELSE indent_level
                   l2 == IF dedent THEN Max(0, l1 - indent_size) ELSE l1
               IN <<FixedLine(l2, line)>>
                    \o FixFrom(ls, i + 1, l2, EndsWithColon(stripped))

fix_code_indentation(ls) == FixFrom(ls, 1, 0, FALSE)

InitIndent ==
  /\ message = <<>>
  /\ has_csv = FALSE /\ has_documents = FALSE
  /\ llm_raises = FALSE /\ llm_reply = <<>>
  /\ uploaded_files = [sid \in Sessions |-> 0]
  /\ document_collections = [sid \in Sessions |-> 0]
  /\ RegistryInit
  /\ RequestInit
  /\ step = "start"
  /\ lines \in Codes
  /\ fixed_lines = <<>> /\ fixed_twice = <<>>
  /\ parts = <<>> /\ extracted = NoCode
  /\ SummaryInit
  /\ CallsInit

others == <<message, llm_raises, llm_reply, attached, registry, routing, pc, searches, loop,
            results, response, calls>>

Fix ==
  /\ step = "start"
  /\ fixed_lines' = fix_code_indentation(lines)
  /\ step' = "fixed"
  /\ UNCHANGED <<others, lines, fixed_twice, extract_vars, summary_vars>>

FixAgain ==
  /\ step = "fixed"
  /\ fixed_twice' = fix_code_indentation(fixed_lines)
  /\ step' = "fixed_twice"
  /\ UNCHANGED <<others, lines, fixed_lines, extract_vars, summary_vars>>

NextIndent == Fix \/ FixAgain

SpecIndent == InitIndent /\ [][NextIndent]_vars

\* C14: applying fix_code_indentation to its own output returns that output.
C14_Idempotent == step = "fixed_twice" => fixed_twice = fixed_lines

\* The second application has run on an output that differs from the input
\* and that holds an indented line after a block opener.
C14_Witness ==
  /\ step = "fixed_twice"
  /\ fixed_lines # lines
  /\ \E i \in 1..Len(fixed_lines) : fixed_lines[i].lead > 0 /\ fixed_lines[i].text = <<"x">>
  /\ \E i \in 1..Len(lines) : lines[i].lead > 0


\* The lines the loop does not skip.
Statements(ls) == SelectSeq(ls, LAMBDA l : ~Skipped(l.text))

\* Code made of ordinary statements and `if` blocks in which every body is
\* one level under its opener and every other statement is at the level of
\* an enclosing block.
PlainWellIndented(ls) ==
  LET st == Statements(ls)
  IN /\ st # <<>>
     /\ \A i \in 1..Len(st) : st[i].text \in {<<"x">>, <<"if", " ", "x", ":">>}
     /\ st[1].lead = 0
     /\ ~EndsWithColon(st[Len(st)].text)
     /\ \A i \in 2..Len(st) :
          IF EndsWithColon(st[i - 1].text)
          THEN st[i].lead = st[i - 1].lead + indent_size
          ELSE st[i].lead <= st[i - 1].lead /\ st[i].lead % indent_size = 0

\* C15: fix_code_indentation returns correctly indented code unchanged, also
\* when an ordinary statement follows the end of a block at the outer level.
C15_WellIndentedUnchanged ==
  (step # "start" /\ PlainWellIndented(lines)) => fixed_lines = lines

DedentKeywords == {"else", "elif", "except", "finally"}

IsKeywordLine(stripped) == stripped # <<>> /\ stripped[1] \in DedentKeywords

\* C16: in the output a dedent keyword line, bare `except:` included, is
\* never deeper than the block opener right before it and is one level above
\* the body statement right before it; the line after a line ending in ':'
\* (a keyword line or a block opener) is one level deeper than that line.
C16_DedentKeywordPlacement ==
  step # "start" =>
    LET st == Statements(fixed_lines)
    IN \A i \in 2..Len(st) :
         IF IsKeywordLine(st[i].text)
         THEN IF EndsWithColon(st[i - 1].text)
              THEN st[i].lead <= st[i - 1].lead
              ELSE st[i].lead = Max(0, st[i - 1].lead - indent_size)
         ELSE EndsWithColon(st[i - 1].text) => st[i].lead = st[i - 1].lead + indent_size


\* ----------------------------------------------- extract_code_from_response
\* The reply is a sequence of tokens: "<fence>" is a run of three backticks,
\* "\n" a line break, " " a space, every other token a run of other characters.
PartTexts ==
  [ untagged_block |-> <<"<fence>", "\n", "u", "\n", "<fence>">>,
    python_block   |-> <<"<fence>", "python", "\n", "p", "\n", "<fence>">>,
    python_inline  |-> <<"<fence>", "python", " ", "q", "<fence>">>,
    generic_inline |-> <<"<fence>", "g", "<fence>">>,
    fence          |-> <<"<fence>">>,
    import         |-> <<"import">>,
    pd             |-> <<"pd.">>,
    df             |-> <<"df.">>,
    newline        |-> <<"\n">>,
    prose          |-> <<"prose">> ]

PartNames == DOMAIN PartTexts

Replies2 == UNION {[1..k -> PartNames] : k \in 0..MaxParts}

RECURSIVE Flatten(_)
Flatten(ps) == IF ps = <<>> THEN <<>> ELSE PartTexts[Head(ps)] \o Flatten(Tail(ps))

IsSpace(tok) == tok \in {"\n", " "}

\* Index of the first token at or after i that is not white space.
RECURSIVE SkipSpace(_, _)
SkipSpace(text, i) ==
  IF i <= Len(text) /\ IsSpace(text[i]) THEN SkipSpace(text, i + 1) ELSE i

\* \s*\n starting at token i: the run of white space holds a line break.
HasBreak(text, i) == \E j \in i..(SkipSpace(text, i) - 1) : text[j] = "\n"

\* Index of the first fence at or after i, 0 when there is none.
NextFence(text, i) ==
  LET js == {j \in i..Len(text) : text[j] = "<fence>"}
  IN IF js = {} THEN 0 ELSE CHOOSE j \in js : \A k \in js : j <= k

\* str.strip()
RECURSIVE Strip(_)
Strip(text) ==
  IF text = <<>> THEN <<>>
  ELSE IF IsSpace(text[1]) THEN Strip(Tail(text))
  ELSE IF IsSpace(text[Len(text)]) THEN Strip(SubSeq(text, 1, Len(text) - 1))
  ELSE text

\* Where the group (.*?) starts when pattern k matches with its opening fence
\* at token i; 0 when it does not match there.
GroupStart(k, text, i) ==
  IF text[i] # "<fence>" THEN 0
  ELSE IF k = 1
       THEN IF i < Len(text) /\ text[i + 1] = "python" /\ HasBreak(text, i + 2)
            THEN SkipSpace(text, i + 2) ELSE 0
  ELSE IF k = 2
       THEN IF HasBreak(text, i + 1) THEN SkipSpace(text, i + 1) ELSE 0
  ELSE IF k = 3
       THEN IF i < Len(text) /\ text[i + 1] = "python" THEN i + 2 ELSE 0
  ELSE i + 1

\* Opening fences at which pattern k matches: the group runs to the next fence.
MatchesAt(k, text) ==
  {i \in 1..Len(text) : GroupStart(k, text, i) # 0
                        /\ NextFence(text, GroupStart(k, text, i)) # 0}

\* matches[0].strip() of re.findall(pattern k, text, re.DOTALL)
FirstGroup(k, text) ==
  LET i == CHOOSE i \in MatchesAt(k, text) : \A j \in MatchesAt(k, text) : i <= j
      g == GroupStart(k, text, i)
  IN Strip(SubSeq(text, g, NextFence(text, g) - 1))

Has(text, tok) == \E i \in 1..Len(text) : text[i] = tok

\* len(text.split(line break))
LineCount(text) == Cardinality({i \in 1..Len(text) : text[i] = "\n"}) + 1

\* Whether method k finds code in the reply.
MethodMatches(k, text) ==
  IF k \in 1..4 THEN MatchesAt(k, text) # {}
  ELSE IF k = 5 THEN Has(text, "import") /\ (Has(text, "pandas") \/ Has(text, "matplotlib")
                                             \/ Has(text, "pd.") \/ Has(text, "plt."))
  ELSE (Has(text, "df.") \/ Has(text, "pd.")) /\ LineCount(text) > 2

\* The lines of a text: split at line breaks, leading spaces counted.
RECURSIVE LeadOf(_)
LeadOf(seg) == IF seg # <<>> /\ seg[1] = " " THEN 1 + LeadOf(Tail(seg)) ELSE 0

RECURSIVE SplitLines(_, _)
SplitLines(text, cur) ==
  IF text = <<>> THEN <<cur>>
  ELSE IF text[1] = "\n" THEN <<cur>> \o SplitLines(Tail(text), <<>>)
  ELSE SplitLines(Tail(text), Append(cur, text[1]))

ToLines(text) ==
  LET segs == SplitLines(text, <<>>)
  IN [n \in 1..Len(segs) |->
        [lead |-> LeadOf(segs[n]),
         text |-> SubSeq(segs[n], LeadOf(segs[n]) + 1, Len(segs[n]))]]

\* Mutant: the untagged pattern is tried before the python-tagged one.
MethodOrder_untagged_first == <<2, 1, 3, 4, 5, 6>>

\* The order in which the function tries its methods.
MethodOrder == <<1, 2, 3, 4, 5, 6>>

extract_code_from_response(text) ==
  LET hits == {n \in 1..Len(MethodOrder) : MethodMatches(MethodOrder[n], text)}
  IN IF hits = {} THEN NoCode
     ELSE LET k == MethodOrder[CHOOSE n \in hits : \A m \in hits : n <= m]
              code == IF k \in 1..4 THEN FirstGroup(k, text) ELSE Strip(text)
          IN [found |-> TRUE, method |-> k, code |-> fix_code_indentation(ToLines(code))]

InitExtract ==
  /\ message = <<>>
  /\ has_csv = FALSE /\ has_documents = FALSE
  /\ llm_raises = FALSE /\ llm_reply = <<>>
  /\ uploaded_files = [sid \in Sessions |-> 0]
  /\ document_collections = [sid \in Sessions |-> 0]
  /\ RegistryInit
  /\ RequestInit
  /\ step = "start"
  /\ lines = <<>> /\ fixed_lines = <<>> /\ fixed_twice = <<>>
  /\ parts \in Replies2
  /\ extracted = NoCode
  /\ SummaryInit
  /\ CallsInit

Extract ==
  /\ step = "start"
  /\ extracted' = extract_code_from_response(Flatten(parts))
  /\ step' = "extracted"
  /\ UNCHANGED <<others, indent_vars, parts, summary_vars>>

NextExtract == Extract

SpecExtract == InitExtract /\ [][NextExtract]_vars

HasPart(name) == \E i \in 1..Len(parts) : parts[i] = name

FenceCount == Cardinality({i \in 1..Len(Flatten(parts)) : Flatten(parts)[i] = "<fence>"})

\* One line holding the single token tok.
OneLine(tok) == <<[lead |-> 0, text |-> <<tok>>]>>

\* C17: a reply with a python-tagged block yields that block's code by
\* method 1 wherever an untagged block stands; without one, an untagged block
\* is found by method 2; any two fences are settled by methods 1-4, before
\* the raw-text heuristics; and no code is returned exactly when there are
\* fewer than two fences and neither heuristic applies.
C17_FirstMatchWins ==
  step = "extracted" =>
    /\ HasPart("python_block") =>
         extracted = [found |-> TRUE, method |-> 1, code |-> OneLine("p")]
    /\ (HasPart("untagged_block") /\ ~HasPart("python_block")) => extracted.method = 2
    /\ FenceCount >= 2 => (extracted.found /\ extracted.method \in 1..4)
    /\ extracted.found <=>
         \/ FenceCount >= 2
         \/ HasPart("import") /\ HasPart("pd")
         \/ (HasPart("df") \/ HasPart("pd"))
              /\ Cardinality({i \in 1..Len(parts) : parts[i] = "newline"}) >= 2
    /\ (FenceCount < 2 /\ extracted.found) => extracted.method \in {5, 6}

\* An untagged block stands before a python-tagged block and the python
\* block's code was returned.
C17_Witness ==
  /\ step = "extracted"
  /\ \E i, j \in 1..Len(parts) :
       i < j /\ parts[i] = "untagged_block" /\ parts[j] = "python_block"
  /\ extracted.method = 1 /\ extracted.code = OneLine("p")


\* ------------------------------------------ explanation of a successful run
\* The request has answered after an execution that succeeded and whose
\* results were processed without an exception.
Explained == pc = "done" /\ execution_successful /\ csv_error = "none"

\* C18: after a successful execution the response carries a non-empty
\* explanation, with or without textual output, with or without charts, and
\* when the explanation call fails or returns empty text.
C18_ExplanationNeverEmpty == Explained => response.explanation \notin Falsy

\* C19: the explanation is the one of the model (or, when that call fails,
\* the template built from the captured output) when there is textual
\* output; the chart-count message when there is none but a chart was
\* produced; the executed-successfully message when there is neither.
C19_ExplanationChain ==
  Explained =>
    IF execution_has_output THEN csv_analysis_result \in {"llm", "empty", "template"}
    ELSE IF csv_charts > 0 THEN csv_analysis_result = "charts"
    ELSE csv_analysis_result = "attempts"


\* ------------------------------------------------------- results summary
\* The execution log of a tabular analysis and the text cut from it for the
\* explanation, by lengths: the log is a sequence of items, results_summary
\* their join with one line break between two items.
Item(kind, len) == [kind |-> kind, len |-> len]

Rule == Item("rule", rule_width)

Min(a, b) == IF a <= b THEN a ELSE b

\* What the data preview appends: a note when it failed (22 and 30 are the
\* lengths of the fixed parts of the two notes), nothing when it printed
\* nothing, else a heading (title of 30 characters), the preview cut at
\* preview_limit and a marker of 23 characters when it was cut.
PreviewItems(p) ==
  CASE p.outcome = "error" -> <<Item("note", 22 + p.len)>>
    [] p.outcome = "raise" -> <<Item("note", 30 + p.len)>>
    [] p.outcome = "stdout" ->
         <<Rule, Item("title", 30), Rule, Item("preview", Min(p.len, preview_limit))>>
           \o (IF p.len > preview_limit THEN <<Item("truncated", 23)>> ELSE <<>>)
    [] OTHER -> <<>>

\* What the processing of a successful execution appends: a heading (title of
\* 17 characters), stdout, and stderr under a title of 7 characters.
ResultItems(l) ==
  <<Item("blank", 0), Rule, Item("title", 17), Rule>>
    \o (IF l.stdout > 0 THEN <<Item("stdout", l.stdout)>> ELSE <<>>)
    \o (IF l.stderr > 0
        THEN <<Item("blank", 0), Item("title", 7), Item("stderr", l.stderr)>> ELSE <<>>)

\* Position in the join of the first character of item n, counted from 0.
RECURSIVE StartOf(_, _)
StartOf(items, n) == IF n = 1 THEN 0 ELSE StartOf(items, n - 1) + items[n - 1].len + 1

\* The first item that is output of the execution itself.
OwnOutput(items) ==
  LET own == {n \in 1..Len(items) : items[n].kind \in {"stdout", "stderr"}}
  IN CHOOSE n \in own : \A m \in own : n <= m

\* Characters of the execution output inside results_summary[:limit].
Handed(items, limit) ==
  LET n == OwnOutput(items)
      from == StartOf(items, n)
  IN Max(0, Min(limit, from + items[n].len) - from)

PreviewLens == {100 * k : k \in 0..MaxPreviewHundreds}

InitSummary ==
  /\ message = <<>>
  /\ has_csv = FALSE /\ has_documents = FALSE
  /\ llm_raises = FALSE /\ llm_reply = <<>>
  /\ uploaded_files = [sid \in Sessions |-> 0]
  /\ document_collections = [sid \in Sessions |-> 0]
  /\ RegistryInit
  /\ RequestInit
  /\ step = "start"
  /\ lines = <<>> /\ fixed_lines = <<>> /\ fixed_twice = <<>>
  /\ parts = <<>> /\ extracted = NoCode
  /\ \E outcome \in {"stdout", "empty", "error", "raise"} :
       \E len \in (IF outcome = "empty" THEN {0} ELSE PreviewLens \ {0}) :
         preview_output = [outcome |-> outcome, len |-> len]
  /\ logs \in {l \in [stdout : {0, 10}, stderr : {0, 10}] : l.stdout + l.stderr > 0}
  /\ csv_execution_output = <<>>
  /\ handed = NothingHanded
  /\ CallsInit

\* The data preview before the loop.
Preview ==
  /\ step = "start"
  /\ csv_execution_output' = csv_execution_output \o PreviewItems(preview_output)
  /\ step' = "previewed"
  /\ UNCHANGED <<others, indent_vars, extract_vars, preview_output, logs, handed>>

\* The capture of the output of the successful execution.
Results ==
  /\ step = "previewed"
  /\ csv_execution_output' = csv_execution_output \o ResultItems(logs)
  /\ step' = "captured"
  /\ UNCHANGED <<others, indent_vars, extract_vars, preview_output, logs, handed>>

\* The explanation: the prompt takes results_summary[:prompt_limit]; when the
\* model call raises, the template takes results_summary[:template_limit].
Explain ==
  /\ step = "captured"
  /\ \E raises \in BOOLEAN :
       handed' = [prompt |-> Handed(csv_execution_output, prompt_limit),
                  template |-> IF raises THEN Handed(csv_execution_output, template_limit)
                               ELSE 0,
                  used_template |-> raises]
  /\ step' = "explained"
  /\ UNCHANGED <<others, indent_vars, extract_vars, preview_output, logs, csv_execution_output>>

NextSummary == Preview \/ Results \/ Explain

SpecSummary == InitSummary /\ [][NextSummary]_vars

\* C20: whatever the size of the data preview recorded earlier in the log,
\* the text handed to the explanation prompt, and to the template when the
\* model call fails, holds at least the beginning of the output of the
\* execution.
C20_OwnOutputInBudget ==
  (step = "explained" /\ preview_output.outcome \in {"stdout", "empty"}) =>
    /\ handed.prompt > 0
    /\ handed.used_template => handed.template > 0

\* --------------------------------------------------- perform_web_research
\* One call of perform_web_research(query, research_session_id) at a time,
\* between calls that close a research session.  research_call records what
\* the call was given and what it returned.
McpOutcomes == {"ok", "missing", "raise"}

\* What the model call gives back as message content: a text, None or '',
\* a text of white space only, or an exception.
ModelOutcomes == {"answer", "none", "blank", "raise"}

ResearchErrors ==
  {"EXA_API_KEY not configured", "Failed to create research sandbox",
   "Could not retrieve MCP configuration", "Error getting MCP configuration",
   "Web research returned empty result", "Research failed"}

\* Mutant: only None and '' count as an empty result.
EmptyResult_unstripped(model) == model = "none"

\* not research_result or len(research_result.strip()) == 0
EmptyResult(model) == model \in {"none", "blank"}

\* The value returned, with the calls made on the way.
Returned(R, creates, model, answer, error) ==
  [reg |-> R, creates |-> creates, model |-> model, answer |-> answer, error |-> error,
   raised |-> FALSE]

perform_web_research(R, key, owner, exa, created, mcp, model) ==
  IF ~exa THEN Returned(R, 0, 0, "none", "EXA_API_KEY not configured")
  ELSE LET make == key \notin DOMAIN R.research
           n == IF make THEN 1 ELSE 0
           R1 == research_get_or_create(R, key, owner, created)
       IN IF make /\ ~created
          THEN Returned(R1, n, 0, "none", "Failed to create research sandbox")
          ELSE IF mcp = "raise"
          THEN Returned(R1, n, 0, "none", "Error getting MCP configuration")
          ELSE IF mcp = "missing"
          THEN Returned(R1, n, 0, "none", "Could not retrieve MCP configuration")
          ELSE IF model = "raise"
          THEN Returned(R1, n, 1, "none", "Research failed")
          ELSE IF EmptyResult(model)
          THEN Returned(R1, n, 1, "none", "Web research returned empty result")
          ELSE Returned(R1, n, 1, model, "none")

\* chat calls perform_web_research(message, f"{session_id}_research").
WebResearch(sid) ==
  \E exa \in BOOLEAN, created \in CreateOutcomes, mcp \in McpOutcomes,
     model \in ModelOutcomes :
    LET key == ResearchKey(sid)
        r == perform_web_research(Reg, key, sid, exa, created, mcp, model)
    IN /\ SetReg(r.reg)
       /\ research_call' = [key |-> key, exa |-> exa, creates |-> r.creates,
                            made |-> Len(r.reg.boxes) - Len(sandboxes),
                            model |-> r.model, answer |-> r.answer, error |-> r.error,
                            raised |-> r.raised]
       /\ Served
       /\ UNCHANGED <<message, llm_raises, llm_reply, routing, pc, searches, loop, results,
                      response, threads, step, indent_vars, extract_vars, summary_vars,
                      compare_vars, chart_vars, scrape>>

NextResearch ==
  \/ \E sid \in Sessions : WebResearch(sid)
  \/ \E key \in Keys : close_research_session(key)

SpecResearch == InitSessions /\ [][NextResearch]_vars

Called == research_call.key # ""

\* C21: perform_web_research never raises and returns either a non-empty
\* answer with no error or no answer with an error naming the failed step;
\* without the search credential it returns the error at once: no sandbox is
\* created and no model call is made, and no step is ever made twice.
C21_AnswerOrError ==
  Called =>
    /\ ~research_call.raised
    /\ \/ research_call.answer = "answer" /\ research_call.error = "none"
       \/ research_call.answer = "none" /\ research_call.error \in ResearchErrors
    /\ research_call.creates <= 1 /\ research_call.model <= 1
    /\ ~research_call.exa =>
         /\ research_call.error = "EXA_API_KEY not configured"
         /\ research_call.creates = 0 /\ research_call.made = 0
         /\ research_call.model = 0

\* The model answered with white space only, on a sandbox created by the call.
C21_Witness ==
  /\ Called /\ research_call.exa
  /\ research_call.made = 1 /\ research_call.model = 1
  /\ research_call.error = "Web research returned empty result"

\* ------------------------------------------------------ comparison table
\* generate_comparison_table on a company profile and a list of competitor
\* records; a record is followed by the names in its "features" list (the
\* functions only test membership, so order and repeats play no part).
FeatureNames == {"api", "API", "sso", "SSO"}

\* str.lower()
lower(name) ==
  CASE name \in {"api", "API", "Api"} -> "api"
    [] name \in {"sso", "SSO", "Sso"} -> "sso"

\* str.title()
title(name) ==
  CASE name \in {"api", "API", "Api"} -> "Api"
    [] name \in {"sso", "SSO", "Sso"} -> "Sso"

FeatureLists == {F \in SUBSET FeatureNames : Cardinality(F) <= MaxFeatures}

CompetitorLists == UNION {[1..k -> FeatureLists] : k \in 0..MaxCompetitors}

\* The rows of build_features_comparison: one per feature name, with the
\* presence of the name in the profile and in each competitor record.
build_features_comparison(company, competitors) ==
  LET all_features ==
        company \cup UNION {competitors[i] : i \in DOMAIN competitors}
  IN [name \in all_features |->
        [user |-> name \in company,
         comps |-> {i \in DOMAIN competitors : name \in competitors[i]}]]

user_features(company) == {lower(name) : name \in company}

competitor_features(competitors) ==
  {lower(name) : name \in UNION {competitors[i] : i \in DOMAIN competitors}}

identify_advantages(company, competitors) ==
  {title(feature) : feature \in user_features(company) \ competitor_features(competitors)}

identify_gaps(company, competitors) ==
  {[name |-> title(feature),
    count |-> Cardinality({i \in DOMAIN competitors :
                             \E f \in competitors[i] : lower(f) = feature})] :
     feature \in competitor_features(competitors) \ user_features(company)}

InitCompare ==
  /\ message = <<>>
  /\ has_csv = FALSE /\ has_documents = FALSE
  /\ llm_raises = FALSE /\ llm_reply = <<>>
  /\ uploaded_files = [sid \in Sessions |-> 0]
  /\ document_collections = [sid \in Sessions |-> 0]
  /\ RegistryInit
  /\ RequestInit
  /\ step = "start"
  /\ lines = <<>> /\ fixed_lines = <<>> /\ fixed_twice = <<>>
  /\ parts = <<>> /\ extracted = NoCode
  /\ SummaryInit
  /\ CallsInitBut("compare")
  /\ company_data \in FeatureLists
  /\ competitors_data \in CompetitorLists
  /\ comparison = NoComparison

outside == <<message, llm_raises, llm_reply, attached, registry, routing, pc, searches, loop,
             results, response, indent_vars, extract_vars, summary_vars>>

generate_comparison_table ==
  /\ step = "start"
  /\ comparison' =
       [features_comparison |-> build_features_comparison(company_data, competitors_data),
        advantages |-> identify_advantages(company_data, competitors_data),
        gaps |-> identify_gaps(company_data, competitors_data)]
  /\ step' = "compared"
  /\ UNCHANGED <<outside, research_call, company_data, competitors_data, chart_vars, scrape>>

NextCompare == generate_comparison_table

SpecCompare == InitCompare /\ [][NextCompare]_vars

\* The feature names of the table, of its rows present in the profile and in
\* some competitor, and of the two lists, compared without regard to case.
SeenNames == {lower(name) : name \in DOMAIN comparison.features_comparison}

SharedNames ==
  {lower(name) : name \in {n \in DOMAIN comparison.features_comparison :
                             /\ comparison.features_comparison[n].user
                             /\ comparison.features_comparison[n].comps # {}}}

AdvantageNames == {lower(a) : a \in comparison.advantages}

GapNames == {lower(g.name) : g \in comparison.gaps}

\* C22: the advantages and the gaps are disjoint, and together with the
\* features the table shows for the profile and for some competitor they are
\* exactly the feature names of the table.
C22_AdvantagesGapsPartition ==
  step = "compared" =>
    /\ AdvantageNames \cap GapNames = {}
    /\ AdvantageNames \cup GapNames \cup SharedNames = SeenNames

\* ----------------------------------------------- claims on the repair loop
\* An attempt that ends without code or at the syntax check.
RejectedAttempt ==
  /\ retry_count' # retry_count
  /\ last_outcome' \in {"no_code", "syntax_error"}

\* C23: run_code is called only on code that was extracted from the reply of
\* this attempt and passed compile(); an attempt that ends without code or
\* with a syntax error makes no run_code call, appends one assistant and one
\* user message and counts as one attempt.
C23_ExecuteOnlyValidatedCode ==
  [][/\ runCalls' # runCalls =>
          /\ pc = "execute" /\ runCalls' = runCalls + 1
          /\ csv_code # 0 /\ csv_code = last_tried /\ csv_code = retry_count + 1
     /\ (pc' = "execute" /\ pc # "execute") => (pc = "validate" /\ csv_code # 0)
     /\ (pc' = "validate" /\ pc # "validate") =>
          (pc = "loop" /\ csv_code' = retry_count + 1 /\ genCalls' = genCalls + 1)
     /\ RejectedAttempt =>
          /\ pc \in {"loop", "validate"}
          /\ runCalls' = runCalls
          /\ conversation_history' = conversation_history \o <<"assistant", "user">>
          /\ retry_count' = retry_count + 1
          /\ runCalls < genCalls']_vars

\* A first attempt without code and a second one stopped at the syntax check:
\* two attempts used, four messages appended, nothing executed.
C23_Witness ==
  /\ pc = "loop" /\ retry_count = 2 /\ last_outcome = "syntax_error"
  /\ genCalls = 2 /\ runCalls = 0
  /\ conversation_history = <<"system", "user", "assistant", "user", "assistant", "user">>

\* ------------------------------------------------------ chart persistence
\* The part of chat that persists the charts of the successful execution,
\* result by result and then from the sandbox's files, while the clock runs.
chart_paths_to_check ==
  <<"/home/user/chart.png", "/home/user/charts/chart.png", "/home/user/plot.png">>

ChartPaths == {chart_paths_to_check[i] : i \in DOMAIN chart_paths_to_check}

\* f"chart_{session_id}_{timestamp}.png" with timestamp = now to the second
chart_filename(session_id, now) == [session |-> session_id, timestamp |-> now]

\* open(chart_path, 'wb').write(...) and csv_charts.append(...)
SaveChart(artifact) ==
  LET name == chart_filename(ChatSession, clock)
  IN /\ charts_dir' = Put(charts_dir, name, artifact)
     /\ chart_entries' = Append(chart_entries, [filename |-> name, artifact |-> artifact])

InitCharts ==
  /\ message = <<>>
  /\ has_csv = FALSE /\ has_documents = FALSE
  /\ llm_raises = FALSE /\ llm_reply = <<>>
  /\ uploaded_files = [sid \in Sessions |-> 0]
  /\ document_collections = [sid \in Sessions |-> 0]
  /\ RegistryInit
  /\ RequestInit
  /\ step = "results"
  /\ lines = <<>> /\ fixed_lines = <<>> /\ fixed_twice = <<>>
  /\ parts = <<>> /\ extracted = NoCode
  /\ SummaryInit
  /\ CallsInitBut("charts")
  /\ clock = 0
  /\ execution_results \in SeqsUpTo({"png", "other"}, MaxCharts)
  /\ sandbox_charts \in SUBSET ChartPaths
  /\ charts_dir = EmptyDict /\ chart_entries = <<>> /\ result_idx = 0

\* A second passes.
Tick ==
  /\ step \in {"results", "files"}
  /\ clock < MaxClock
  /\ clock' = clock + 1
  /\ UNCHANGED <<outside, step, research_call, compare_vars, scrape, execution_results,
                 sandbox_charts, charts_dir, chart_entries, result_idx>>

\* One turn of the loop over execution.results; a failing write is not
\* caught here and ends the analysis in the handler's except branch.
SaveResult ==
  /\ step = "results" /\ result_idx < Len(execution_results)
  /\ result_idx' = result_idx + 1
  /\ IF execution_results[result_idx + 1] = "png"
     THEN \E written \in BOOLEAN :
            IF written
            THEN SaveChart([from |-> "result", at |-> result_idx + 1]) /\ UNCHANGED step
            ELSE step' = "except" /\ UNCHANGED <<charts_dir, chart_entries>>
     ELSE UNCHANGED <<step, charts_dir, chart_entries>>
  /\ UNCHANGED <<outside, research_call, compare_vars, scrape, clock, execution_results,
                 sandbox_charts>>

ResultsDone ==
  /\ step = "results" /\ result_idx = Len(execution_results)
  /\ step' = "files"
  /\ UNCHANGED <<outside, calls>>

\* The loop over chart_paths_to_check: the first path that is read and
\* written is kept and ends the loop; a failing read or write is caught and
\* the next path is tried.
SaveSandboxChart ==
  /\ step = "files"
  /\ \E readable \in SUBSET sandbox_charts :
       IF readable = {}
       THEN UNCHANGED <<charts_dir, chart_entries>>
       ELSE LET first == CHOOSE i \in DOMAIN chart_paths_to_check :
                           /\ chart_paths_to_check[i] \in readable
                           /\ \A j \in 1..(i - 1) : chart_paths_to_check[j] \notin readable
            IN SaveChart([from |-> "file", at |-> first])
  /\ step' = "collected"
  /\ UNCHANGED <<outside, research_call, compare_vars, scrape, clock, execution_results,
                 sandbox_charts, result_idx>>

NextCharts == Tick \/ SaveResult \/ ResultsDone \/ SaveSandboxChart

SpecCharts == InitCharts /\ [][NextCharts]_vars

PngResults == {i \in DOMAIN execution_results : execution_results[i] = "png"}

\* C24: when the charts of an execution have been collected, every PNG
\* result has its entry in the chart list, no two entries name the same file
\* and the file of every entry holds the artifact the entry was made for.
C24_OneFilePerChart ==
  step = "collected" =>
    /\ \A r \in PngResults :
         \E i \in DOMAIN chart_entries :
           chart_entries[i].artifact = [from |-> "result", at |-> r]
    /\ \A i, j \in DOMAIN chart_entries :
         i # j => chart_entries[i].filename # chart_entries[j].filename
    /\ \A i \in DOMAIN chart_entries :
         charts_dir[chart_entries[i].filename] = chart_entries[i].artifact

\* ---------------------------------------------------------------- uploads
\* Uploads with their answers, between chats and closes of the sessions.
upload_answered(sid) == upload_request(sid, TRUE)

NextUploads ==
  \/ \E sid \in Sessions : upload_answered(sid)
  \/ \E sid \in Sessions : chat(sid)
  \/ \E sid \in Sessions : close_session(sid)

SpecUploads == InitSessions /\ [][NextUploads]_vars

\* C25: an upload that answers success has left the file in the session's
\* list of attached tabular files, so the next chat computes has_csv = true.
C25_SuccessMeansRegistered ==
  (last_op.op = "upload" /\ ~last_op.error) => uploaded_files[last_op.key] > 0

\* C27: once close_session(S) has finished, S has no attached tabular file
\* and no attached document, and once cleanup_all has finished no session
\* has any: the next chat computes has_csv = false and has_documents = false.
C27_NoRecordsAfterClose ==
  /\ last_op.op = "close_session" =>
       uploaded_files[last_op.key] = 0 /\ document_collections[last_op.key] = 0
  /\ last_op.op \in {"cleanup_all", "signal"} =>
       \A sid \in Sessions : uploaded_files[sid] = 0 /\ document_collections[sid] = 0

\* ------------------------------------- close against use, two threads
\* A chat or an upload (get_or_create_sandbox, then a call on the handle it
\* returned) and close_session (cleanup_sandbox) on their own threads, each
\* statement a step.  last_op names the call on a handle or the close that
\* finished last: error says that the call was made on a released handle, or
\* that the close answered with an error.
local == <<message, llm_raises, llm_reply, routing, pc, searches, loop, results, response,
           pure, document_collections, research_sandboxes>>

\* A request arrives: a chat or an upload, or a close, for a session.
Begin(t) ==
  /\ threads[t].pc = "idle"
  /\ \E sid \in Sessions : \E first \in {"test", "close_test"} :
       threads' = [threads EXCEPT ![t] = [pc |-> first, pool |-> "plain", key |-> sid,
                                          made |-> 0]]
  /\ UNCHANGED <<local, last_op, uploaded_files, active_sandboxes, sandboxes>>

\* return active_sandboxes[session_id]; a KeyError ends the request.
Fetch(t) ==
  /\ threads[t].pc = "return" /\ threads[t].pool = "plain"
  /\ threads' = [threads EXCEPT ![t] =
                   IF KeyError(active_sandboxes, threads[t].key) THEN Idle
                   ELSE [threads[t] EXCEPT !.pc = "use",
                                           !.made = active_sandboxes[threads[t].key]]]
  /\ UNCHANGED <<local, last_op, uploaded_files, active_sandboxes, sandboxes>>

\* sbx.run_code(...) of chat, or sbx.files.write(...) of upload_file followed
\* by the registration of the file.
Use(t) ==
  /\ threads[t].pc = "use"
  /\ last_op' = [op |-> "use", key |-> threads[t].key,
                 error |-> sandboxes[threads[t].made].released > 0, closed |-> FALSE]
  /\ \E upload \in BOOLEAN :
       uploaded_files' =
         IF upload /\ uploaded_files[threads[t].key] < MaxFiles
         THEN [uploaded_files EXCEPT ![threads[t].key] = @ + 1] ELSE uploaded_files
  /\ threads' = [threads EXCEPT ![t] = Idle]
  /\ UNCHANGED <<local, active_sandboxes, sandboxes>>

\* if session_id in active_sandboxes
CloseTest(t) ==
  /\ threads[t].pc = "close_test"
  /\ threads' = [threads EXCEPT ![t].pc =
                   IF threads[t].key \in DOMAIN active_sandboxes THEN "close_read"
                   ELSE "files_test"]
  /\ UNCHANGED <<local, last_op, uploaded_files, active_sandboxes, sandboxes>>

\* sandbox = active_sandboxes[session_id], inside the try block
CloseRead(t) ==
  /\ threads[t].pc = "close_read"
  /\ threads' = [threads EXCEPT ![t] =
                   IF KeyError(active_sandboxes, threads[t].key)
                   THEN [threads[t] EXCEPT !.pc = "close_del"]
                   ELSE [threads[t] EXCEPT !.pc = "close_call",
                                           !.made = active_sandboxes[threads[t].key]]]
  /\ UNCHANGED <<local, last_op, uploaded_files, active_sandboxes, sandboxes>>

\* sandbox.close()
CloseCall(t) ==
  /\ threads[t].pc = "close_call"
  /\ sandboxes' = Release(sandboxes, {threads[t].made})
  /\ threads' = [threads EXCEPT ![t].pc = "close_del"]
  /\ UNCHANGED <<local, last_op, uploaded_files, active_sandboxes>>

\* The answer of close_session.
Closed(t, error) ==
  /\ last_op' = [op |-> "close_session", key |-> threads[t].key, error |-> error,
                 closed |-> threads[t].made # 0]
  /\ threads' = [threads EXCEPT ![t] = Idle]

\* del active_sandboxes[session_id], outside the try block
CloseDel(t) ==
  /\ threads[t].pc = "close_del"
  /\ IF KeyError(active_sandboxes, threads[t].key)
     THEN Closed(t, TRUE) /\ UNCHANGED active_sandboxes
     ELSE /\ active_sandboxes' = Del(active_sandboxes, threads[t].key)
          /\ threads' = [threads EXCEPT ![t].pc = "files_test"]
          /\ UNCHANGED last_op
  /\ UNCHANGED <<local, uploaded_files, sandboxes>>

\* if session_id in uploaded_files
FilesTest(t) ==
  /\ threads[t].pc = "files_test"
  /\ IF uploaded_files[threads[t].key] > 0
     THEN threads' = [threads EXCEPT ![t].pc = "files_del"] /\ UNCHANGED last_op
     ELSE Closed(t, FALSE)
  /\ UNCHANGED <<local, uploaded_files, active_sandboxes, sandboxes>>

\* del uploaded_files[session_id]
FilesDel(t) ==
  /\ threads[t].pc = "files_del"
  /\ Closed(t, uploaded_files[threads[t].key] = 0)
  /\ uploaded_files' = [uploaded_files EXCEPT ![threads[t].key] = 0]
  /\ UNCHANGED <<local, active_sandboxes, sandboxes>>

NextClose ==
  \/ \E t \in Threads : Begin(t)
  \/ \E t \in Threads : Test(t)
  \/ \E t \in Threads : Create(t)
  \/ \E t \in Threads : Store(t)
  \/ \E t \in Threads : Fetch(t)
  \/ \E t \in Threads : Use(t)
  \/ \E t \in Threads : CloseTest(t)
  \/ \E t \in Threads : CloseRead(t)
  \/ \E t \in Threads : CloseCall(t)
  \/ \E t \in Threads : CloseDel(t)
  \/ \E t \in Threads : FilesTest(t)
  \/ \E t \in Threads : FilesDel(t)

SpecClose == InitSessions /\ [][NextClose]_vars

\* C26: under every interleaving no call is made on a handle that has been
\* released, no handle is released twice and no close answers with an error.
C26_NoUseAfterRelease ==
  /\ last_op.op = "use" => ~last_op.error
  /\ \A h \in DOMAIN sandboxes : sandboxes[h].released <= 1
  /\ last_op.op = "close_session" => ~last_op.error

\* ------------------------------------------- claims on the chat handler
\* C28: a chat answered with the upload-first error has made no web research
\* (so no model call of it and no research sandbox), created no sandbox and
\* made no call of the repair loop or of the explanation.
C28_RejectionHasNoEffects ==
  response.kind = "upload_first" =>
    /\ web_research_result = "none" /\ ~web_research_error
    /\ research_sandboxes = EmptyDict
    /\ \A h \in DOMAIN sandboxes : sandboxes[h].pool # "research"
    /\ genCalls = 0 /\ runCalls = 0 /\ explainCalls = 0

\* C29: an exception of the generation call or of run_code during an attempt
\* ends the loop: no further generation, execution or attempt follows, the
\* request reports the failure of the tabular analysis, and for csv_only the
\* response is the error response.
C29_ExceptionEndsLoop ==
  /\ [](last_outcome = "exception" => pc \in {"except", "combine", "done"})
  /\ [][last_outcome = "exception" =>
          /\ genCalls' = genCalls /\ runCalls' = runCalls
          /\ retry_count' = retry_count /\ last_outcome' = "exception"]_vars
  /\ []((pc = "done" /\ last_outcome = "exception") =>
          /\ csv_error = "failed" /\ response.error
          /\ query_type = "csv_only" =>
               response.status = 500 /\ response.kind = "csv_exception")

\* run_code raises in the second attempt of a csv_only request: one attempt
\* used of ten, and the error response.
C29_Witness ==
  /\ pc = "done" /\ last_outcome = "exception" /\ query_type = "csv_only"
  /\ retry_count = 1 /\ genCalls = 2 /\ runCalls = 2
  /\ response.status = 500

\* -------------------------------------------------- scrape_url_in_sandbox
\* One call of scrape_url_in_sandbox(sandbox, url, max_retries), one turn of
\* its loop at a time.  scrape.log holds the outcome of every attempt made,
\* scrape.waits the seconds of every time.sleep, in order.
AttemptOutcomes == {"success", "no_mcp_configuration", "call_raises", "empty_result"}

RECURSIVE Pow2(_)
Pow2(k) == IF k = 0 THEN 1 ELSE 2 * Pow2(k - 1)

\* Mutant: the last attempt is taken for one that is followed by another.
RetryFollows_off_by_one(attempt, max_retries) == attempt < max_retries

\* if attempt < max_retries - 1
RetryFollows(attempt, max_retries) == attempt < max_retries - 1

InitScrape ==
  /\ message = <<>>
  /\ has_csv = FALSE /\ has_documents = FALSE
  /\ llm_raises = FALSE /\ llm_reply = <<>>
  /\ uploaded_files = [sid \in Sessions |-> 0]
  /\ document_collections = [sid \in Sessions |-> 0]
  /\ RegistryInit
  /\ RequestInit
  /\ step = "loop"
  /\ lines = <<>> /\ fixed_lines = <<>> /\ fixed_twice = <<>>
  /\ parts = <<>> /\ extracted = NoCode
  /\ SummaryInit
  /\ CallsInitBut("scrape")
  /\ \E max_retries \in 0..MaxRetries : scrape = NoScrape(max_retries)

\* One turn of `for attempt in range(max_retries)`: the try block returns the
\* success result, or raises into the except branch, which sleeps and goes
\* on, or returns the error result after the last attempt.
Attempt ==
  /\ step = "loop" /\ scrape.attempt < scrape.max_retries
  /\ \E outcome \in AttemptOutcomes :
       LET made == [scrape EXCEPT !.log = Append(@, outcome)]
       IN IF outcome = "success"
          THEN /\ scrape' = [made EXCEPT !.status = "success"]
               /\ step' = "returned"
          ELSE IF RetryFollows(scrape.attempt, scrape.max_retries)
          THEN /\ scrape' = [made EXCEPT !.waits = Append(@, Pow2(scrape.attempt)),
                                         !.attempt = @ + 1]
               /\ UNCHANGED step
          ELSE /\ scrape' = [made EXCEPT !.status = "error", !.error = outcome]
               /\ step' = "returned"
  /\ UNCHANGED <<outside, research_call, compare_vars, chart_vars>>

\* The return after the loop.
MaxRetriesExceeded ==
  /\ step = "loop" /\ scrape.attempt >= scrape.max_retries
  /\ scrape' = [scrape EXCEPT !.status = "error", !.error = "Max retries exceeded"]
  /\ step' = "returned"
  /\ UNCHANGED <<outside, research_call, compare_vars, chart_vars>>

NextScrape == Attempt \/ MaxRetriesExceeded

SpecScrape == InitScrape /\ [][NextScrape]_vars

Failures(log) == \A i \in DOMAIN log : log[i] # "success"

\* C30: scrape_url_in_sandbox never raises and makes at most max_retries
\* attempts; it returns success at the first attempt that succeeds; it waits
\* 2^k seconds after the failed attempt k that is not the last and does not
\* wait after the last; with max_retries = 0 it makes no attempt and returns
\* an error result.
C30_BoundedAttemptsBackoff ==
  /\ ~scrape.raised
  /\ Len(scrape.log) <= scrape.max_retries
  /\ step = "loop" =>
       /\ Failures(scrape.log)
       /\ scrape.waits = [k \in 1..Len(scrape.log) |-> Pow2(k - 1)]
  /\ step = "returned" =>
       /\ scrape.status \in {"success", "error"}
       /\ Failures(SubSeq(scrape.log, 1, Len(scrape.log) - 1))
       /\ scrape.waits = [k \in 1..(Len(scrape.log) - 1) |-> Pow2(k - 1)]
       /\ scrape.status = "success" <=>
            (scrape.log # <<>> /\ scrape.log[Len(scrape.log)] = "success")
       /\ scrape.status = "error" =>
            Failures(scrape.log) /\ Len(scrape.log) = scrape.max_retries
       /\ scrape.max_retries = 0 => (scrape.log = <<>> /\ scrape.status = "error")

\* Three attempts allowed, all three fail: waits of 1 and 2 seconds, none
\* after the third, and the error result.
C30_Witness ==
  /\ step = "returned" /\ scrape.max_retries = 3 /\ Len(scrape.log) = 3
  /\ scrape.status = "error" /\ scrape.waits = <<1, 2>>

====
